---- MODULE Spec2Model ----
(***************************************************************************)
(* Model of PipelineRecord.py: the in-memory record list kept by           *)
(* main_menu, the CSV load/save functions, the add/edit/delete handlers,   *)
(* display_records and aggregate_data.                                     *)
(*                                                                         *)
(* Text typed by the user or read from the CSV file is kept as text (a     *)
(* TLA+ string); float() and int() are modelled as partial conversions     *)
(* from text to numbers.  Numbers are integers in units of 1/10000, so     *)
(* that "50.0001" is representable.  A record object is its class and    *)
(* its two attributes.                                                     *)
(***************************************************************************)
EXTENDS Integers, Sequences, FiniteSets, TLC

VARIABLES
    records,    \* main_menu's `records` list (line 310)
    file,       \* contents of the CSV file named by `file_name` (line 311)
    pc,         \* "menu" | "loading" (inside the loop of line 100) |
                \* "crashed" (uncaught exception) | "exited"
    loading,    \* load_data_from_file's local `records` list (line 96)
    reader,     \* number of rows `csv_reader` has yielded (line 100)
    typed,      \* text typed during the last command; typed[1] is `choice` (line 324)
    out,        \* lines printed by the last command (each a sequence of strings)
    chart       \* bar chart drawn by the last command: <<>> or <<[title, categories]>>

vars == <<records, file, pc, loading, reader, typed, out, chart>>

----------------------------------------------------------------------------
(* Bounds of the model *)

\* longest list "Add New Record" grows in the menu session
MaxLen == 1
\* longest list "Add New Record" grows in the session without files
MaxStore == 3
\* rows beyond the load cap in the files of the load-only session
ExtraRows == 2
\* longest list the chart-only session starts from
MaxAggLen == 3

(* Program constants *)

\* load_data_from_file stops after this many records (line 113)
LoadCap == 100
\* throughput above this makes a FormattedPipelineRecord (lines 102, 157, 186, 190)
\* and a "High (50+)" bucket (line 253)
Threshold == 50
\* values up to this are "Low (0-20)" (line 251)
LowLimit == 20

----------------------------------------------------------------------------
(* float() and int() *)

\* decimal text of the integers the model uses
IntText == [i \in -1 .. (LoadCap + ExtraRows + 2) |-> ToString(i)]

\* text float() accepts that is not the decimal text of an integer
DecimalText == {"20.5", "49.9999", "50.0001"}

DecimalValue(s) ==
    CASE s = "20.5" -> 205000
      [] s = "49.9999" -> 499999
      [] s = "50.0001" -> 500001

\* the integer a decimal text denotes
TextInt == [s \in {IntText[i] : i \in DOMAIN IntText} |->
               CHOOSE i \in DOMAIN IntText : IntText[i] = s]

\* float(s): [ok |-> FALSE] stands for ValueError
float(s) ==
    IF s = "nan" THEN [ok |-> TRUE, nan |-> TRUE, num |-> 0]
    ELSE IF s \in DecimalText THEN [ok |-> TRUE, nan |-> FALSE, num |-> DecimalValue(s)]
    ELSE IF s \in DOMAIN TextInt
    THEN [ok |-> TRUE, nan |-> FALSE, num |-> 10000 * TextInt[s]]
    ELSE [ok |-> FALSE, nan |-> FALSE, num |-> 0]

\* int(s): ValueError on anything but an integer literal ("nan", "20.5" included)
int(s) ==
    IF s \in DOMAIN TextInt THEN [ok |-> TRUE, num |-> TextInt[s]]
    ELSE [ok |-> FALSE, num |-> 0]

\* x > n and x <= n on floats; every comparison with nan is False
Gt(x, n) == ~x.nan /\ x.num > 10000 * n
Le(x, n) == ~x.nan /\ x.num <= 10000 * n

----------------------------------------------------------------------------
(* Persistence layer: the two record classes *)

PlainClass == "PipelineRecord"
FormattedClass == "FormattedPipelineRecord"

PipelineRecord(throughput, available_capacity) ==
    [cls |-> PlainClass, throughput |-> throughput,
     available_capacity |-> available_capacity]

FormattedPipelineRecord(throughput, available_capacity) ==
    [cls |-> FormattedClass, throughput |-> throughput,
     available_capacity |-> available_capacity]

\* isinstance(record, FormattedPipelineRecord)
IsFormatted(record) == record.cls = FormattedClass

\* str(record): the parts of the printed string (the two emoji of the
\* formatted variant are left out of the literals)
Str(record) ==
    IF IsFormatted(record)
    THEN <<"\n********** Formatted Pipeline Record **********\n",
           "Throughput       : ", record.throughput, " (1000 m3/d)\n",
           "Available Capacity: ", record.available_capacity, " (1000 m3/d)\n",
           "***********************************************">>
    ELSE <<"Throughput: ", record.throughput,
           " (1000 m3/d), Available Capacity: ", record.available_capacity,
           " (1000 m3/d)">>

\* the object lines 102-111 and lines 157-160 construct; float(throughput)
\* has already been seen not to raise
NewRecord(throughput, available_capacity) ==
    IF Gt(float(throughput), Threshold)
    THEN FormattedPipelineRecord(throughput, available_capacity)
    ELSE PipelineRecord(throughput, available_capacity)

----------------------------------------------------------------------------
(* Persistence layer: load_data_from_file and save_data_to_file *)

FileName == "keystone-throughput-and-capacity.csv"

Row(throughput, available_capacity) ==
    [throughput |-> throughput, available_capacity |-> available_capacity]

MissingFile == [exists |-> FALSE, rows |-> <<>>]
CsvFile(rows) == [exists |-> TRUE, rows |-> rows]

\* line 113 breaking one record late
CapReachedLate(n) == n > LoadCap
\* line 113: if len(records) >= 100: break
CapReached(n) == n >= LoadCap

ConversionError == <<<<"An error occurred: ", "could not convert string to float">>>>

NotFoundError == <<<<"Error: ", FileName, " was not found.">>>>

\* What one pass through the loop of lines 100-114 does with the local list
\* `acc` after `pos` rows were read: [done, records, reader, out].  `done`
\* says that load_data_from_file returns `records` (line 119).

\* one pass that prints the ValueError, drops the row and reads on
LoopPassSkipping(rows, pos, acc) ==
    IF pos >= Len(rows)
    THEN [done |-> TRUE, records |-> acc, reader |-> pos, out |-> <<>>]
    ELSE LET row == rows[pos + 1]
         IN  IF ~float(row.throughput).ok
             THEN [done |-> FALSE, records |-> acc, reader |-> pos + 1,
                   out |-> ConversionError]
             ELSE LET acc2 == Append(acc, NewRecord(row.throughput,
                                                    row.available_capacity))
                  IN  [done |-> CapReached(Len(acc2)), records |-> acc2,
                       reader |-> pos + 1, out |-> <<>>]

\* lines 100-119: the reader is exhausted (the loop ends); or float() of the
\* row's throughput raises ValueError out of the loop, the handler of line
\* 117 prints it; or the row's record is appended and the cap is tested
LoopPass(rows, pos, acc) ==
    IF pos >= Len(rows)
    THEN [done |-> TRUE, records |-> acc, reader |-> pos, out |-> <<>>]
    ELSE LET row == rows[pos + 1]
         IN  IF ~float(row.throughput).ok
             THEN [done |-> TRUE, records |-> acc, reader |-> pos + 1,
                   out |-> ConversionError]
             ELSE LET acc2 == Append(acc, NewRecord(row.throughput,
                                                    row.available_capacity))
                  IN  [done |-> CapReached(Len(acc2)), records |-> acc2,
                       reader |-> pos + 1, out |-> <<>>]

\* save_data_to_file(records, output_file): the rows written under the header
\* when the file can be opened for writing, the message when it cannot
save_data_to_file(recs, output_file, writable) ==
    IF writable
    THEN [written |-> TRUE,
          file |-> CsvFile([i \in 1 .. Len(recs) |->
                              Row(recs[i].throughput, recs[i].available_capacity)]),
          out |-> <<<<"Data saved to ", output_file, " successfully.">>>>]
    ELSE [written |-> FALSE, file |-> MissingFile,
          out |-> <<<<"An error occurred while saving to ", output_file>>>>]

----------------------------------------------------------------------------
(* Business layer: add_record, edit_record, delete_record.                 *)
(* Each returns the list after the call, what was printed, and whether the *)
(* call ended in an uncaught exception.                                    *)

Result(raised, recs, printed) ==
    [raised |-> raised, records |-> recs, out |-> printed]

\* lines 156-163 putting the new record first
add_record_first(recs, throughput, available_capacity) ==
    IF ~float(throughput).ok
    THEN Result(TRUE, recs, <<>>)
    ELSE Result(FALSE, <<NewRecord(throughput, available_capacity)>> \o recs,
                <<<<"Record added successfully.">>>>)

\* lines 153-163
add_record(recs, throughput, available_capacity) ==
    IF ~float(throughput).ok
    THEN Result(TRUE, recs, <<>>)
    ELSE Result(FALSE, Append(recs, NewRecord(throughput, available_capacity)),
                <<<<"Record added successfully.">>>>)

\* records[record_id] and records.pop(record_id): the 1-based position a
\* Python index denotes; a negative index counts from the end
At(recs, record_id) ==
    IF record_id < 0 THEN Len(recs) + record_id + 1 ELSE record_id + 1

\* line 176 and line 210 without the lower bound
ValidIndexNoLower(record_id, recs) == record_id < Len(recs)
\* line 176 and line 210: 0 <= record_id < len(records)
ValidIndex(record_id, recs) == 0 <= record_id /\ record_id < Len(recs)

\* lines 181-195: the fields are overwritten first (lines 182-183), then
\* float(throughput) is evaluated (line 186) and may raise
Overwrite(recs, record_id, throughput, available_capacity) ==
    LET k == At(recs, record_id)
        current == [recs EXCEPT ![k].throughput = throughput,
                                ![k].available_capacity = available_capacity]
        x == float(throughput)
    IN  IF ~x.ok THEN Result(TRUE, current, <<>>)
        ELSE IF Gt(x, Threshold) /\ ~IsFormatted(current[k])
        THEN Result(FALSE,
                    [current EXCEPT ![k] =
                        FormattedPipelineRecord(throughput, available_capacity)],
                    <<<<"Record updated and converted to FormattedPipelineRecord.">>>>)
        ELSE IF Le(x, Threshold) /\ IsFormatted(current[k])
        THEN Result(FALSE,
                    [current EXCEPT ![k] =
                        PipelineRecord(throughput, available_capacity)],
                    <<<<"Record updated and converted to PipelineRecord.">>>>)
        ELSE Result(FALSE, current, <<<<"Record updated successfully.">>>>)

\* lines 175-197; `number` is the text typed as the record number
edit_record(recs, number, throughput, available_capacity) ==
    IF ~int(number).ok THEN Result(TRUE, recs, <<>>)
    ELSE LET record_id == int(number).num - 1
         IN  IF ValidIndex(record_id, recs)
             THEN Overwrite(recs, record_id, throughput, available_capacity)
             ELSE Result(FALSE, recs, <<<<"Invalid record number.">>>>)

\* line 211 popping the last element whatever the index
PopLast(recs, record_id) == SubSeq(recs, 1, Len(recs) - 1)
\* records.pop(record_id) (line 211)
Pop(recs, record_id) ==
    LET k == At(recs, record_id)
    IN  SubSeq(recs, 1, k - 1) \o SubSeq(recs, k + 1, Len(recs))

\* lines 209-214
delete_record(recs, number) ==
    IF ~int(number).ok THEN Result(TRUE, recs, <<>>)
    ELSE LET record_id == int(number).num - 1
         IN  IF ValidIndex(record_id, recs)
             THEN Result(FALSE, Pop(recs, record_id),
                         <<<<"Record deleted successfully.">>>>)
             ELSE Result(FALSE, recs, <<<<"Invalid record number.">>>>)

----------------------------------------------------------------------------
(* Presentation layer: display_records, aggregate_data and the chart *)

\* lines 226-228
display_records(recs) ==
    <<<<"\nPipeline Throughput and Capacity Records:">>>>
    \o [i \in 1 .. Len(recs) |-> <<ToString(i), ". ">> \o Str(recs[i])]

Low == "Low (0-20)"
Medium == "Medium (20-50)"
High == "High (50+)"

\* line 247
EmptyCategories == (Low :> 0) @@ (Medium :> 0) @@ (High :> 0)

\* lines 251-256 with the boundary values put in the upper bucket
BucketOpen(value) ==
    IF ~value.nan /\ value.num < 10000 * LowLimit THEN Low
    ELSE IF ~value.nan /\ value.num < 10000 * Threshold THEN Medium
    ELSE High

\* lines 251-256: the key whose count is incremented
Bucket(value) ==
    IF Le(value, LowLimit) THEN Low
    ELSE IF Gt(value, LowLimit) /\ Le(value, Threshold) THEN Medium
    ELSE High

\* lines 249-256 counting only the records of the first two buckets
RECURSIVE AggregateLoopDropping(_, _, _, _)
AggregateLoopDropping(recs, i, field, categories) ==
    IF i > Len(recs) THEN [raised |-> FALSE, categories |-> categories]
    ELSE LET value == float(recs[i][field])
         IN  IF ~value.ok THEN [raised |-> TRUE, categories |-> categories]
             ELSE IF Bucket(value) = High
             THEN AggregateLoopDropping(recs, i + 1, field, categories)
             ELSE AggregateLoopDropping(recs, i + 1, field,
                     [categories EXCEPT ![Bucket(value)] = @ + 1])

\* lines 249-256: the loop; float() of a non-numeric field raises ValueError
RECURSIVE AggregateLoop(_, _, _, _)
AggregateLoop(recs, i, field, categories) ==
    IF i > Len(recs) THEN [raised |-> FALSE, categories |-> categories]
    ELSE LET value == float(recs[i][field])
         IN  IF ~value.ok THEN [raised |-> TRUE, categories |-> categories]
             ELSE AggregateLoop(recs, i + 1, field,
                                [categories EXCEPT ![Bucket(value)] = @ + 1])

\* aggregate_data(records, field)
aggregate_data(recs, field) == AggregateLoop(recs, 1, field, EmptyCategories)

\* lines 281-290: the field and title chosen by the typed choice
ChartField(choice) == IF choice = "2" THEN "throughput" ELSE "available_capacity"
ChartTitle(choice) ==
    IF choice = "2" THEN "Aggregated Horizontal Bar Chart: Throughput"
    ELSE "Aggregated Horizontal Bar Chart: Available Capacity"

\* generate_horizontal_bar_chart(records), lines 271-303
generate_horizontal_bar_chart(recs, choice) ==
    IF recs = <<>>
    THEN [raised |-> FALSE, chart |-> <<>>,
          out |-> <<<<"\nNo data loaded. Please load data before generating a chart.">>>>]
    ELSE LET aggregated_data == aggregate_data(recs, ChartField(choice))
             prompt == IF choice \in {"1", "2"} THEN <<>>
                       ELSE <<<<"Invalid choice. Defaulting to Available Capacity.">>>>
         IN  IF aggregated_data.raised
             THEN [raised |-> TRUE, chart |-> <<>>, out |-> prompt]
             ELSE [raised |-> FALSE, out |-> prompt,
                   chart |-> <<[title |-> ChartTitle(choice),
                                categories |-> aggregated_data.categories]>>]

----------------------------------------------------------------------------
(* The inputs the model draws from *)

\* text typed as a throughput, text typed as an available capacity
ThroughputText == {"50", "51", "nan", "abc"}
CapacityText == {"5", "abc"}

\* text typed as a record number when the list holds up to n records
NumberText(n) == {IntText[i] : i \in 0 .. n + 1} \cup {"abc"}

\* the CSV file at start-up of the menu session
InitFiles ==
    { MissingFile,
      CsvFile(<<>>),
      CsvFile(<<Row("51", "abc")>>),
      CsvFile(<<Row("50", "5"), Row("51", "5"), Row("abc", "5"), Row("50", "5")>>) }

----------------------------------------------------------------------------
(* main_menu (lines 310-354): one action per menu choice *)

AtMenu == pc = "menu"

\* the state after a handler returned or raised
Finish(r, input) ==
    /\ records' = r.records
    /\ out' = r.out
    /\ pc' = IF r.raised THEN "crashed" ELSE "menu"
    /\ typed' = input
    /\ chart' = <<>>
    /\ UNCHANGED <<file, loading, reader>>

\* a command that only prints
Say(line, input) ==
    /\ out' = <<<<line>>>>
    /\ typed' = input
    /\ chart' = <<>>
    /\ UNCHANGED <<records, file, pc, loading, reader>>

\* line 327 binding `records` to a list that extends the old one
ReboundExtending(old, loaded) == old \o loaded
\* line 327: records = load_data_from_file(file_name)
Rebound(old, loaded) == loaded

\* choice '1': load_data_from_file is entered (lines 96-99); a missing file
\* is reported (line 116) and the empty list returned and bound (line 327)
MenuLoad ==
    /\ AtMenu
    /\ IF file.exists
       THEN /\ pc' = "loading"
            /\ out' = <<>>
            /\ UNCHANGED records
       ELSE /\ pc' = "menu"
            /\ out' = NotFoundError
            /\ records' = Rebound(records, <<>>)
    /\ loading' = <<>>
    /\ reader' = 0
    /\ typed' = <<"1">>
    /\ chart' = <<>>
    /\ UNCHANGED file

\* one pass through the loop of load_data_from_file; on leaving the loop the
\* function returns and main_menu binds `records` (line 327)
LoadRow ==
    /\ pc = "loading"
    /\ LET p == LoopPass(file.rows, reader, loading)
       IN  /\ out' = IF p.out # <<>> THEN p.out ELSE out
           /\ IF p.done
              THEN /\ records' = Rebound(records, p.records)
                   /\ loading' = <<>>
                   /\ reader' = 0
                   /\ pc' = "menu"
              ELSE /\ loading' = p.records
                   /\ reader' = p.reader
                   /\ UNCHANGED <<records, pc>>
    /\ UNCHANGED <<file, typed, chart>>

\* choice '2'
MenuDisplay ==
    /\ AtMenu
    /\ out' = IF records # <<>> THEN display_records(records)
              ELSE <<<<"No records loaded.">>>>
    /\ typed' = <<"2">>
    /\ chart' = <<>>
    /\ UNCHANGED <<records, file, pc, loading, reader>>

\* choice '3', while the list is shorter than `limit`
AddCommand(limit) ==
    /\ AtMenu
    /\ Len(records) < limit
    /\ \E throughput \in ThroughputText, available_capacity \in CapacityText :
         Finish(add_record(records, throughput, available_capacity),
                <<"3", throughput, available_capacity>>)

MenuAdd == AddCommand(MaxLen)

\* choice '4'; the two new values are asked for only at a valid record number
EditCommand(numbers) ==
    /\ AtMenu
    /\ IF records # <<>>
       THEN \E number \in numbers :
              IF int(number).ok /\ ValidIndex(int(number).num - 1, records)
              THEN \E throughput \in ThroughputText,
                      available_capacity \in CapacityText :
                     Finish(edit_record(records, number, throughput,
                                        available_capacity),
                            <<"4", number, throughput, available_capacity>>)
              ELSE Finish(edit_record(records, number, "", ""), <<"4", number>>)
       ELSE Say("No records loaded.", <<"4">>)

MenuEdit == EditCommand(NumberText(Len(records)))

\* choice '5'
DeleteCommand(numbers) ==
    /\ AtMenu
    /\ IF records # <<>>
       THEN \E number \in numbers :
              Finish(delete_record(records, number), <<"5", number>>)
       ELSE Say("No records loaded.", <<"5">>)

MenuDelete == DeleteCommand(NumberText(Len(records)))

\* choice '6'; the output file is the loaded file itself or another one, and
\* opening it for writing succeeds or fails
MenuSave ==
    /\ AtMenu
    /\ \E output_file \in {FileName, "other.csv"}, writable \in BOOLEAN :
         LET s == save_data_to_file(records, output_file, writable)
         IN  /\ file' = IF s.written /\ output_file = FileName THEN s.file ELSE file
             /\ out' = s.out
             /\ typed' = <<"6", output_file>>
    /\ chart' = <<>>
    /\ UNCHANGED <<records, pc, loading, reader>>

\* choice '7'; the field is asked for only when there are records
MenuPlot ==
    /\ AtMenu
    /\ \E choice \in IF records # <<>> THEN {"1", "2", "x"} ELSE {""} :
         LET g == generate_horizontal_bar_chart(records, choice)
         IN  /\ chart' = g.chart
             /\ out' = g.out
             /\ pc' = IF g.raised THEN "crashed" ELSE "menu"
             /\ typed' = IF records # <<>> THEN <<"7", choice>> ELSE <<"7">>
    /\ UNCHANGED <<records, file, loading, reader>>

\* choice '8'
MenuExit ==
    /\ AtMenu
    /\ pc' = "exited"
    /\ out' = <<<<"Exiting program.">>>>
    /\ typed' = <<"8">>
    /\ chart' = <<>>
    /\ UNCHANGED <<records, file, loading, reader>>

\* any other choice
MenuInvalid ==
    /\ AtMenu
    /\ Say("Invalid choice, try again.", <<"9">>)

\* lines 310-311
Init ==
    /\ records = <<>>
    /\ file \in InitFiles
    /\ pc = "menu"
    /\ loading = <<>>
    /\ reader = 0
    /\ typed = <<>>
    /\ out = <<>>
    /\ chart = <<>>

Next ==
    \/ MenuLoad
    \/ LoadRow
    \/ MenuDisplay
    \/ MenuAdd
    \/ MenuEdit
    \/ MenuDelete
    \/ MenuSave
    \/ MenuPlot
    \/ MenuExit
    \/ MenuInvalid

Spec == Init /\ [][Next]_vars

----------------------------------------------------------------------------
(* The record list alone: a session of add, edit, delete and display       *)
(* commands from the empty list of line 310, with no file                  *)

StoreAdd == AddCommand(MaxStore)

StoreInit ==
    /\ records = <<>>
    /\ file = MissingFile
    /\ pc = "menu"
    /\ loading = <<>>
    /\ reader = 0
    /\ typed = <<>>
    /\ out = <<>>
    /\ chart = <<>>

StoreNext ==
    \/ StoreAdd
    \/ MenuEdit
    \/ MenuDelete
    \/ MenuDisplay

SpecStore == StoreInit /\ [][StoreNext]_vars

----------------------------------------------------------------------------
(* Loading alone: the "Load Data from CSV" command on files of up to       *)
(* LoadCap + ExtraRows rows                                                *)

\* a throughput float() accepts, varying with the row
SampleThroughput(i) ==
    CASE i % 4 = 0 -> "50"
      [] i % 4 = 1 -> "51"
      [] i % 4 = 2 -> "nan"
      [] i % 4 = 3 -> "50.0001"

\* n rows, row i holding its own number as available capacity; row `bad`
\* (if any) holds text float() rejects in column `col`
SampleRows(n, bad, col) ==
    [i \in 1 .. n |->
        IF i # bad THEN Row(SampleThroughput(i), IntText[i])
        ELSE IF col = "throughput" THEN Row("abc", IntText[i])
        ELSE Row(SampleThroughput(i), "abc")]

LoadFiles ==
    {MissingFile} \cup
    UNION { { CsvFile(SampleRows(n, bad, col)) :
                bad \in {0, 1, 2, n \div 2, n} \cap (0 .. n),
                col \in {"throughput", "available_capacity"} } :
            n \in (0 .. 3) \cup (LoadCap - 1 .. LoadCap + ExtraRows) }

LoadInit ==
    /\ records = <<>>
    /\ file \in LoadFiles
    /\ pc = "menu"
    /\ loading = <<>>
    /\ reader = 0
    /\ typed = <<>>
    /\ out = <<>>
    /\ chart = <<>>

LoadNext ==
    \/ MenuLoad
    \/ LoadRow

SpecLoad == LoadInit /\ [][LoadNext]_vars

----------------------------------------------------------------------------
(* Aggregation alone: the "Plot Horizontal Bar Chart" command on lists of  *)
(* up to MaxAggLen records                                                 *)

\* records the session can hold: the throughput is one float() accepts
SampleRecords ==
    { NewRecord("20", "50"), NewRecord("20.5", "20"), NewRecord("50", "50.0001"),
      NewRecord("50.0001", "nan"), NewRecord("nan", "20.5"), NewRecord("0", "abc") }

AggregateInit ==
    /\ records \in UNION {[1 .. n -> SampleRecords] : n \in 0 .. MaxAggLen}
    /\ file = MissingFile
    /\ pc = "menu"
    /\ loading = <<>>
    /\ reader = 0
    /\ typed = <<>>
    /\ out = <<>>
    /\ chart = <<>>

AggregateNext == MenuPlot

SpecAggregate == AggregateInit /\ [][AggregateNext]_vars

----------------------------------------------------------------------------
(* Helpers of the properties *)

Min(a, b) == IF a < b THEN a ELSE b

\* float() accepts the text
Numeric(text) == float(text).ok

\* the two attributes of every record, as rows
RowsOf(recs) ==
    [i \in 1 .. Len(recs) |-> Row(recs[i].throughput, recs[i].available_capacity)]

\* the first row whose throughput float() rejects, Len(rows) + 1 if none
FirstBad(rows) ==
    IF \E i \in 1 .. Len(rows) : ~Numeric(rows[i].throughput)
    THEN CHOOSE i \in 1 .. Len(rows) :
           /\ ~Numeric(rows[i].throughput)
           /\ \A j \in 1 .. i - 1 : Numeric(rows[j].throughput)
    ELSE Len(rows) + 1

WellFormedRow(row) == Numeric(row.throughput) /\ Numeric(row.available_capacity)

\* the last command was "Load Data from CSV" and it is over
Loaded == typed = <<"1">> /\ pc = "menu"

\* the field and the counts of the chart on screen
ChartedField ==
    IF chart[1].title = "Aggregated Horizontal Bar Chart: Throughput"
    THEN "throughput" ELSE "available_capacity"
Counts == chart[1].categories
Charted(i) == float(records[i][ChartedField])

----------------------------------------------------------------------------
(* C1.  add_record and edit_record called with a throughput or an          *)
(* available capacity that is not a number fail and leave the list as it   *)
(* was: same length, same fields at every position.                        *)
(* The code does not do this: see C1_RejectsNonNumeric's counterexample.   *)
C1_RejectsNonNumeric ==
    [][ /\ \/ typed'[1] = "3"
           \/ typed'[1] = "4" /\ Len(typed') = 4
        /\ \/ ~Numeric(typed'[Len(typed') - 1])
           \/ ~Numeric(typed'[Len(typed')])
        => /\ pc' = "crashed"
           /\ records' = records ]_vars

(* C2.  In every state of a session of load, add, edit and delete commands *)
(* every record of the list is a FormattedPipelineRecord exactly when its  *)
(* throughput is a number greater than 50.                                 *)
(* The code does not keep this: an edit to "nan" keeps the old class.      *)
C2_VariantIffHigh ==
    pc = "menu" =>
        \A i \in 1 .. Len(records) :
            IsFormatted(records[i]) <=>
                (Numeric(records[i].throughput)
                 /\ float(records[i].throughput).num > 50 * 10000
                 /\ ~float(records[i].throughput).nan)

(* C3.  An edit or delete command whose record number is an integer        *)
(* outside 1 .. len(records) prints "Invalid record number.", does not     *)
(* raise, and leaves the list unchanged.                                   *)
C3_OutOfRangeNoEffect ==
    [][ /\ typed'[1] \in {"4", "5"}
        /\ Len(typed') >= 2
        /\ int(typed'[2]).ok
        /\ \/ int(typed'[2]).num < 1
           \/ int(typed'[2]).num > Len(records)
        => /\ records' = records
           /\ pc' = "menu"
           /\ out' = <<<<"Invalid record number.">>>> ]_vars

\* an out-of-range delete has just been refused on a list of two records
C3_Witness ==
    /\ typed = <<"5", "3">>
    /\ Len(records) = 2
    /\ out = <<<<"Invalid record number.">>>>

C5_DeleteRemovesOne ==
    [][ /\ typed'[1] = "5"
        /\ Len(typed') = 2
        /\ int(typed'[2]).ok
        /\ int(typed'[2]).num \in 1 .. Len(records)
        => LET k == int(typed'[2]).num
           IN  /\ Len(records') = Len(records) - 1
               /\ \A j \in 1 .. k - 1 : records'[j] = records[j]
               /\ \A j \in k .. Len(records) - 1 : records'[j] = records[j + 1]
               /\ (\A j \in 1 .. Len(records) : j # k => records[j] # records[k])
                  => \A j \in 1 .. Len(records') : records'[j] # records[k]
               /\ pc' = "menu" ]_vars

\* the middle one of three records has just been deleted
C5_Witness ==
    /\ typed = <<"5", "2">>
    /\ out = <<<<"Record deleted successfully.">>>>
    /\ Len(records) = 2
    /\ records[1] # records[2]

(* C6.  A load never yields more than 100 records, and a load of a file    *)
(* of n well-formed rows yields exactly its first min(n, 100) rows, in     *)
(* file order, and prints nothing.                                         *)
C6_LoadCapped ==
    /\ Len(records) <= 100
    /\ (Loaded /\ file.exists
        /\ \A i \in 1 .. Len(file.rows) : WellFormedRow(file.rows[i]))
       => /\ RowsOf(records) = SubSeq(file.rows, 1, Min(Len(file.rows), 100))
          /\ out = <<>>

\* a well-formed file of more than 100 rows was loaded
C6_Witness ==
    /\ Loaded
    /\ Len(file.rows) > 100
    /\ \A i \in 1 .. Len(file.rows) : WellFormedRow(file.rows[i])
    /\ Len(records) = 100

(* C7.  Whenever a chart is drawn (every value of the chosen field is a    *)
(* number), its Low, Medium and High counts add up to len(records).        *)
C7_CountsSumToLen ==
    chart # <<>> => Counts[Low] + Counts[Medium] + Counts[High] = Len(records)

\* a chart of three records with one record in each bucket
C7_Witness ==
    /\ chart # <<>>
    /\ Len(records) = 3
    /\ Counts[Low] = 1 /\ Counts[Medium] = 1 /\ Counts[High] = 1

(* C8.  The chart counts a value v as Low when v <= 20, as Medium when     *)
(* 20 < v <= 50 and as High when v > 50 (and when v is nan): 20 is Low     *)
(* and 50 is Medium.                                                       *)
C8_Buckets ==
    chart # <<>> =>
        LET I == 1 .. Len(records)
        IN  /\ Counts[Low] =
                 Cardinality({i \in I : ~Charted(i).nan /\ Charted(i).num <= 20 * 10000})
            /\ Counts[Medium] =
                 Cardinality({i \in I : /\ ~Charted(i).nan
                                        /\ Charted(i).num > 20 * 10000
                                        /\ Charted(i).num <= 50 * 10000})
            /\ Counts[High] =
                 Cardinality({i \in I : \/ Charted(i).nan
                                        \/ Charted(i).num > 50 * 10000})

\* the throughputs 20, 50 and 50.0001 charted as Low, Medium and High
C8_Witness ==
    /\ chart # <<>>
    /\ ChartedField = "throughput"
    /\ Len(records) = 3
    /\ records[1].throughput = "20"
    /\ records[2].throughput = "50"
    /\ records[3].throughput = "50.0001"
    /\ Counts[Low] = 1 /\ Counts[Medium] = 1 /\ Counts[High] = 1

(* C9.  An add command with numeric inputs adds exactly one record, with   *)
(* the typed values, at the end of the list and leaves the earlier records *)
(* as they were, so N of them on the empty list give a list of length N in *)
(* the order of the adds; the display command prints the records with      *)
(* their positions 1 .. N in list order.                                   *)
C9_AppendInOrder ==
    [][ /\ (typed'[1] = "3" /\ Numeric(typed'[2]) /\ Numeric(typed'[3]))
           => /\ Len(records') = Len(records) + 1
              /\ SubSeq(records', 1, Len(records)) = records
              /\ records'[Len(records')].throughput = typed'[2]
              /\ records'[Len(records')].available_capacity = typed'[3]
              /\ pc' = "menu"
        /\ (typed'[1] = "2" /\ records # <<>>)
           => /\ Len(out') = Len(records) + 1
              /\ \A i \in 1 .. Len(records) :
                    /\ out'[i + 1][1] = IntText[i]
                    /\ SubSeq(out'[i + 1], 3, Len(out'[i + 1])) = Str(records[i]) ]_vars

\* a third record has just been added after two different ones
C9_Witness ==
    /\ typed = <<"3", "51", "5">>
    /\ Len(records) = 3
    /\ records[1].throughput = "50"
    /\ records[2].throughput = "nan"
    /\ records[3].throughput = "51"

(* C10.  After a load command the list holds exactly what that load        *)
(* produced from the file as it is then: one record per loaded row, in     *)
(* row order, nothing when the file is missing, and nothing of the list    *)
(* that was in memory before.                                              *)
C10_ReloadReplaces ==
    /\ [][ /\ (pc = "loading" /\ pc' = "menu")
              => \/ records' = loading
                 \/ /\ reader < Len(file.rows)
                    /\ records' = Append(loading,
                                         NewRecord(file.rows[reader + 1].throughput,
                                                   file.rows[reader + 1].available_capacity))
           /\ (pc = "menu" /\ typed' = <<"1">> /\ ~file.exists)
              => records' = <<>> ]_vars
    /\ [](Loaded =>
            /\ Len(records) <= Len(file.rows)
            /\ \A i \in 1 .. Len(records) :
                  records[i] = NewRecord(file.rows[i].throughput,
                                         file.rows[i].available_capacity))

\* a reload of a file that the session itself wrote, while other records
\* had been in memory
C10_Witness ==
    /\ Loaded
    /\ file \notin InitFiles
    /\ records # <<>>

====
